---- MODULE Spec2Model ----
(***************************************************************************)
(* Account store, credential migration and session handling of the        *)
(* SmartHarvest portal (src/app.py).                                       *)
(*                                                                         *)
(* A text (a Python str, a CSV cell) is a sequence of one-character        *)
(* strings.  A bcrypt hash "$2b$<cost>$<salt><digest>" is the text         *)
(* <<"$","2","b", salt>> \o password: the salt is one token and the digest *)
(* is represented by the password it was computed from (a collision-free   *)
(* hash).  The input alphabet has letters, digits, "$" and "x"; it has no  *)
(* text that read_csv takes for a missing value, a float or a boolean, and *)
(* none that to_csv would have to quote.                                   *)
(*                                                                         *)
(* A DataFrame cell is [t, s, n]: t = "str" with text s, or t = "int" with *)
(* value n (a column that read_csv inferred as int64).  Setting a str into *)
(* an int64 column upcasts the column (pandas 1.x / 2.x).                  *)
(***************************************************************************)
EXTENDS Integers, Sequences, FiniteSets, TLC

\* ------------------------------------------------------------------------
\* Bounds of the model
\* ------------------------------------------------------------------------
MaxRows == 2        \* register_user is not let to grow the table past MaxRows rows
MaxCalls == 2       \* register_user calls of one concurrent script run
MaxInitRows == 2    \* rows of the table found on disk at start

\* outcomes of bcrypt.gensalt(), each one token of a text
Salts == {"s1", "s2"}

Usernames == {<<"a">>, <<"7">>}
Passwords == {<<"p">>, <<"7">>, <<"0", "7">>}
\* what a table written before passwords were hashed can hold in "password"
LegacyCells == {<<"p">>, <<"0", "7">>, <<"$", "2", "x">>}
EmptyText == <<>>

\* ------------------------------------------------------------------------
\* Texts
\* ------------------------------------------------------------------------
DigitChars == <<"0", "1", "2", "3", "4", "5", "6", "7", "8", "9">>
IsDigit(c) == \E i \in 1..Len(DigitChars) : DigitChars[i] = c
DigitVal(c) == (CHOOSE i \in 1..Len(DigitChars) : DigitChars[i] = c) - 1

\* str.startswith
StartsWith(s, prefix) ==
    /\ Len(s) >= Len(prefix)
    /\ SubSeq(s, 1, Len(prefix)) = prefix

\* the C parser's integer inference for one cell
IsInt(s) == Len(s) > 0 /\ \A i \in 1..Len(s) : IsDigit(s[i])

RECURSIVE IntVal(_)
IntVal(s) ==
    IF s = <<>> THEN 0
    ELSE 10 * IntVal(SubSeq(s, 1, Len(s) - 1)) + DigitVal(s[Len(s)])

\* str(int)
RECURSIVE IntToText(_)
IntToText(n) ==
    IF n < 10 THEN <<DigitChars[n + 1]>>
    ELSE IntToText(n \div 10) \o <<DigitChars[(n % 10) + 1]>>

StrCell(s) == [t |-> "str", s |-> s, n |-> 0]
IntCell(n) == [t |-> "int", s |-> <<>>, n |-> n]

\* str(value) / the text to_csv writes for a cell
CellText(v) == IF v.t = "int" THEN IntToText(v.n) ELSE v.s

\* ------------------------------------------------------------------------
\* Credential hasher
\* ------------------------------------------------------------------------
HashPrefix == <<"$", "2", "b">>
HashMarker == <<"$", "2">>

\* bcrypt.hashpw(password.encode(), salt).decode()
hash_password(password, salt) == HashPrefix \o <<salt>> \o password

\* a value bcrypt.checkpw accepts as a hash
WellFormedHash(h) ==
    /\ Len(h) >= 4
    /\ SubSeq(h, 1, 3) = HashPrefix
    /\ h[4] \in Salts

\* bcrypt.checkpw(password.encode(), hashed.encode()): "True", "False", or
\* the exception it raises ("ValueError": Invalid salt; "AttributeError":
\* hashed is not a str)
check_password(password, hashed) ==
    IF hashed.t # "str" THEN "AttributeError"
    ELSE IF ~WellFormedHash(hashed.s) THEN "ValueError"
    ELSE IF SubSeq(hashed.s, 5, Len(hashed.s)) = password THEN "True"
    ELSE "False"

\* ------------------------------------------------------------------------
\* users.csv <-> DataFrame
\* ------------------------------------------------------------------------
Column(rows, name) == [i \in 1..Len(rows) |-> rows[i][name]]

\* read_csv infers int64 for a non-empty column whose cells are all integers
ColIsInt(cells) == Len(cells) > 0 /\ \A i \in 1..Len(cells) : IsInt(cells[i])

ParseCol(cells) ==
    IF ColIsInt(cells)
    THEN [i \in 1..Len(cells) |-> IntCell(IntVal(cells[i]))]
    ELSE [i \in 1..Len(cells) |-> StrCell(cells[i])]

\* pd.read_csv(users_file)
read_csv(rows) ==
    LET us == ParseCol(Column(rows, "username"))
        ps == ParseCol(Column(rows, "password"))
    IN [i \in 1..Len(rows) |-> [username |-> us[i], password |-> ps[i]]]

\* df.to_csv(users_file, index=False)
to_csv(df) ==
    [i \in 1..Len(df) |-> [username |-> CellText(df[i].username),
                           password |-> CellText(df[i].password)]]

NoFile == [exists |-> FALSE, rows |-> <<>>]
FileOf(rows) == [exists |-> TRUE, rows |-> rows]

\* ------------------------------------------------------------------------
\* load_users / save_users
\* ------------------------------------------------------------------------
\* line 54: the row holds a value that is not in hash format
NeedsMigration_m_2a_only(pwd) == ~StartsWith(pwd, <<"$", "2", "a">>)

NeedsMigration(pwd) == ~StartsWith(pwd, HashMarker)

\* lines 51-62: one row of the migration loop, salt drawn by gensalt()
MigrateRow(row, salt) ==
    LET pwd == CellText(row.password)
    IN IF NeedsMigration(pwd)
       THEN [row EXCEPT !.password = StrCell(hash_password(pwd, salt))]
       ELSE row

\* the rows the loop rewrites
MigratedRows(df) ==
    {i \in 1..Len(df) : NeedsMigration(CellText(df[i].password))}

\* line 59/63: changed is set when some row was rewritten
Changed_m_last_row_only(df) == Len(df) > 0 /\ Len(df) \in MigratedRows(df)

Changed(df) == MigratedRows(df) # {}

\* load_users(): the table returned, the file afterwards, and whether the
\* file was written back.  salts[i] is the salt gensalt() returns for row i.
load_users(f, salts) ==
    IF ~f.exists
    THEN [df |-> <<>>, file |-> f, changed |-> FALSE, rows |-> {}]
    ELSE LET df0 == read_csv(f.rows)
             df1 == [i \in 1..Len(df0) |-> MigrateRow(df0[i], salts[i])]
         IN [df |-> df1,
             file |-> IF Changed(df0) THEN FileOf(to_csv(df1)) ELSE f,
             changed |-> Changed(df0),
             rows |-> MigratedRows(df0)]

\* save_users(df)
save_users(df) == FileOf(to_csv(df))

\* the salts gensalt() can return during one load of file f: one draw per
\* row that is rehashed (the other rows draw none)
SaltChoices(f) ==
    LET need == MigratedRows(read_csv(f.rows))
        s0 == CHOOSE x \in Salts : TRUE
    IN {[i \in 1..Len(f.rows) |-> IF i \in need THEN g[i] ELSE s0] :
          g \in [1..Len(f.rows) -> Salts]}

\* ------------------------------------------------------------------------
\* register_user / login_user
\* ------------------------------------------------------------------------
UsernameValues(df) == {df[i].username : i \in 1..Len(df)}

\* line 76: username in users["username"].values
UsernameTaken(df, username) == StrCell(username) \in UsernameValues(df)

\* lines 79-81: the new record appended to the loaded table
NewUser(username, password, salt) ==
    [username |-> StrCell(username),
     password |-> StrCell(hash_password(password, salt))]

\* register_user(username, password) on file f: the file afterwards, the
\* value returned, and the rows load_users rehashed on the way
register_user(f, username, password, salts, salt) ==
    LET r == load_users(f, salts)
    IN IF UsernameTaken(r.df, username)
       THEN [file |-> r.file, ret |-> "False", rows |-> r.rows]
       ELSE [file |-> save_users(Append(r.df, NewUser(username, password, salt))),
             ret |-> "True", rows |-> r.rows]

\* line 89: users[users["username"] == username]
UserRow(df, username) == {i \in 1..Len(df) : df[i].username = StrCell(username)}

First(S) == CHOOSE i \in S : \A j \in S : i <= j

\* login_user(username, password) on file f; ret is "True", "False" or the
\* exception check_password lets through
login_user(f, username, password, salts) ==
    LET r == load_users(f, salts)
        user_row == UserRow(r.df, username)
    IN [file |-> r.file,
        rows |-> r.rows,
        ret |-> IF user_row # {}
                THEN check_password(password, r.df[First(user_row)].password)
                ELSE "False"]

\* ------------------------------------------------------------------------
\* State
\* ------------------------------------------------------------------------
VARIABLES
    file,        \* users/users.csv: [exists, rows], rows of texts
    session,     \* st.session_state: [authenticated, username]
    page,        \* the sidebar radio "Navigation"
    dfCalls,     \* load_df / save_df calls of the latest script run
    last,        \* the latest call or UI event and what it returned
    hist,        \* the latest Login or Logout click
    initial,     \* the file found at start
    rehashed,    \* per table row, how often the migration rehashed it
    registered,  \* <<u, p>> registered while u was not in the table
    pc, snap, arg, ret, ncalls, log   \* concurrent register_user calls

vars == <<file, session, page, dfCalls, last, hist, initial, rehashed,
          registered, pc, snap, arg, ret, ncalls, log>>

uiVars == <<session, page, dfCalls, hist>>
raceVars == <<pc, snap, arg, ret, ncalls, log>>

Procs == {1, 2}
Pages == {"Dashboard", "Records", "Weather", "About"}
Keys == {"expenses", "fertilizer", "livestock", "yield"}

\* tables of at most n legacy rows with distinct usernames
RECURSIVE LegacyTables(_)
LegacyTables(n) ==
    IF n = 0 THEN {<<>>}
    ELSE LET T == LegacyTables(n - 1)
         IN T \cup {Append(t, [username |-> u, password |-> c]) :
                      t \in {x \in T : Len(x) = n - 1},
                      u \in Usernames, c \in LegacyCells}

Distinct(rows) ==
    \A i, j \in 1..Len(rows) : rows[i].username = rows[j].username => i = j

InitFiles ==
    {NoFile} \cup {FileOf(t) : t \in {x \in LegacyTables(MaxInitRows) : Distinct(x)}}

NoCall == [op |-> "none", u |-> <<>>, p |-> <<>>, ret |-> "none",
           before |-> NoFile, df |-> <<>>, changed |-> FALSE]

Call(op, u, p, r, before, df, changed) ==
    [op |-> op, u |-> u, p |-> p, ret |-> r, before |-> before,
     df |-> df, changed |-> changed]

Init ==
    /\ file \in InitFiles
    /\ initial = file
    /\ session = [authenticated |-> FALSE, username |-> <<>>]
    /\ page = "Dashboard"
    /\ dfCalls = {}
    /\ last = NoCall
    /\ hist = [ev |-> "none", u |-> <<>>, ret |-> "none"]
    /\ rehashed = [i \in 1..Len(file.rows) |-> 0]
    /\ registered = {}
    /\ pc = [q \in Procs |-> "idle"]
    /\ snap = [q \in Procs |-> <<>>]
    /\ arg = [q \in Procs |-> [u |-> <<>>, p |-> <<>>]]
    /\ ret = [q \in Procs |-> "none"]
    /\ ncalls = [q \in Procs |-> 0]
    /\ log = <<>>

\* the migration counters after a load that rehashed `rows`, for a table
\* that then has n rows
Rehash(rows, n) ==
    [i \in 1..n |-> IF i > Len(rehashed) THEN 0
                    ELSE IF i \in rows THEN rehashed[i] + 1 ELSE rehashed[i]]

FileUsernames(f) == {f.rows[i].username : i \in 1..Len(f.rows)}

\* ------------------------------------------------------------------------
\* Calls of the account store by one process
\* ------------------------------------------------------------------------
LoadUsers ==
    \E salts \in SaltChoices(file) :
        \E r \in {load_users(file, salts)} :
           /\ file' = r.file
           /\ last' = Call("load", <<>>, <<>>, "none", file, r.df, r.changed)
           /\ rehashed' = Rehash(r.rows, Len(r.file.rows))
           /\ UNCHANGED <<registered, initial, uiVars, raceVars>>

\* save_users(load_users())
SaveLoaded ==
    \E salts \in SaltChoices(file) :
        \E r \in {load_users(file, salts)} :
           /\ file' = save_users(r.df)
           /\ last' = Call("save", <<>>, <<>>, "none", file, r.df, r.changed)
           /\ rehashed' = Rehash(r.rows, Len(r.df))
           /\ UNCHANGED <<registered, initial, uiVars, raceVars>>

RegisterUser ==
    \E username \in Usernames, password \in Passwords,
       salts \in SaltChoices(file), salt \in Salts :
        \E r \in {register_user(file, username, password, salts, salt)} :
           /\ Len(r.file.rows) <= MaxRows
           /\ file' = r.file
           /\ last' = Call("register", username, password, r.ret, file, <<>>, FALSE)
           /\ rehashed' = Rehash(r.rows, Len(r.file.rows))
           /\ registered' =
                IF r.ret = "True" /\ username \notin FileUsernames(file)
                THEN registered \cup {<<username, password>>}
                ELSE registered
           /\ UNCHANGED <<initial, uiVars, raceVars>>

LoginUser ==
    \E username \in Usernames, password \in Passwords,
       salts \in SaltChoices(file) :
        \E r \in {login_user(file, username, password, salts)} :
           /\ file' = r.file
           /\ last' = Call("login", username, password, r.ret, file, <<>>, FALSE)
           /\ rehashed' = Rehash(r.rows, Len(r.file.rows))
           /\ UNCHANGED <<registered, initial, uiVars, raceVars>>

Next == LoadUsers \/ SaveLoaded \/ RegisterUser \/ LoginUser

Spec == Init /\ [][Next]_vars

\* ------------------------------------------------------------------------
\* The Streamlit script: one action per click, each a whole script run
\* (and the rerun it asks for)
\* ------------------------------------------------------------------------
UiTexts == Usernames \cup {EmptyText}
UiPasswords == {<<"p">>, EmptyText}

LoggedOut == [authenticated |-> FALSE, username |-> <<>>]

UiEvent(op, u, p, r) == Call(op, u, p, r, NoFile, <<>>, FALSE)

\* lines 284-306 / 317-320: the load_df calls of a page rendered for username
PageLoads(pg, username) ==
    IF pg \in {"Records", "Dashboard"}
    THEN {[fn |-> "load_df", user |-> username, key |-> k] : k \in Keys}
    ELSE {}

\* lines 228-230: the session after login_user returned ok
SessionAfterLogin_m_always(s, username, ok) ==
    [authenticated |-> TRUE, username |-> username]

SessionAfterLogin(s, username, ok) ==
    IF ok = "True" THEN [authenticated |-> TRUE, username |-> username] ELSE s

\* the Login button (lines 227-234); a successful login reruns the script,
\* which renders the default page for the user
ClickLogin ==
    /\ ~session.authenticated
    /\ \E username \in UiTexts, password \in UiPasswords,
          salts \in SaltChoices(file) :
        \E r \in {login_user(file, username, password, salts)} :
           /\ file' = r.file
           /\ rehashed' = Rehash(r.rows, Len(r.file.rows))
           /\ session' = SessionAfterLogin(session, username, r.ret)
           /\ page' = "Dashboard"
           /\ dfCalls' = IF session'.authenticated
                         THEN PageLoads("Dashboard", session'.username)
                         ELSE {}
           /\ last' = UiEvent("ui_login", username, password, r.ret)
           /\ hist' = [ev |-> "login", u |-> username, ret |-> r.ret]
           /\ UNCHANGED <<registered, initial, raceVars>>

\* the Create Account button (lines 243-252)
ClickCreateAccount ==
    /\ ~session.authenticated
    /\ \E new_user \in UiTexts, new_pass \in UiPasswords,
          confirm_pass \in UiPasswords :
        IF new_user = EmptyText \/ new_pass = EmptyText \/ new_pass # confirm_pass
        THEN /\ last' = UiEvent("ui_create", new_user, new_pass, "none")
             /\ dfCalls' = {}
             /\ UNCHANGED <<file, rehashed, registered, session, page, hist,
                            initial, raceVars>>
        ELSE \E salts \in SaltChoices(file), salt \in Salts :
             \E r \in {register_user(file, new_user, new_pass, salts, salt)} :
                /\ Len(r.file.rows) <= MaxRows
                /\ file' = r.file
                /\ rehashed' = Rehash(r.rows, Len(r.file.rows))
                /\ registered' =
                     IF r.ret = "True" /\ new_user \notin FileUsernames(file)
                     THEN registered \cup {<<new_user, new_pass>>}
                     ELSE registered
                /\ last' = UiEvent("ui_create", new_user, new_pass, r.ret)
                /\ dfCalls' = {}
                /\ UNCHANGED <<session, page, hist, initial, raceVars>>

\* the Logout button (lines 257-260); the rerun renders the login screen
ClickLogout ==
    /\ session.authenticated
    /\ session' = LoggedOut
    /\ page' = "Dashboard"
    /\ dfCalls' = {}
    /\ last' = UiEvent("ui_logout", <<>>, <<>>, "none")
    /\ hist' = [ev |-> "logout", u |-> <<>>, ret |-> "none"]
    /\ UNCHANGED <<file, rehashed, registered, initial, raceVars>>

\* the Navigation radio (line 265) and the page it renders
Navigate ==
    /\ session.authenticated
    /\ \E pg \in Pages :
        /\ page' = pg
        /\ dfCalls' = PageLoads(pg, session.username)
        /\ last' = UiEvent("ui_navigate", <<>>, <<>>, "none")
    /\ UNCHANGED <<file, rehashed, registered, session, hist, initial, raceVars>>

\* a Save button of the Records page (lines 286-310)
ClickSave ==
    /\ session.authenticated
    /\ page = "Records"
    /\ \E k \in Keys :
        dfCalls' = PageLoads(page, session.username)
                     \cup {[fn |-> "save_df", user |-> session.username, key |-> k]}
    /\ last' = UiEvent("ui_save", <<>>, <<>>, "none")
    /\ UNCHANGED <<file, rehashed, registered, session, page, hist, initial,
                   raceVars>>

NextUI == ClickLogin \/ ClickCreateAccount \/ ClickLogout \/ Navigate \/ ClickSave

SpecUI == Init /\ [][NextUI]_vars

\* ------------------------------------------------------------------------
\* register_user called by concurrent script runs: the steps between which
\* another run can read or write users.csv
\* ------------------------------------------------------------------------
RaceUsernames == {<<"a">>, <<"b">>}
RacePasswords == {<<"p">>}

\* line 75 (line 48): read the file and run the migration loop in memory
RaceLoad(q) ==
    /\ pc[q] = "idle"
    /\ ncalls[q] < MaxCalls
    /\ Len(file.rows) < MaxRows
    /\ \E username \in RaceUsernames, password \in RacePasswords,
          salts \in SaltChoices(file) :
        \E r \in {load_users(file, salts)} :
           /\ snap' = [snap EXCEPT ![q] = r.df]
           /\ arg' = [arg EXCEPT ![q] = [u |-> username, p |-> password]]
           /\ pc' = [pc EXCEPT ![q] = IF r.changed THEN "writeback" ELSE "loaded"]
    /\ ncalls' = [ncalls EXCEPT ![q] = @ + 1]
    /\ ret' = [ret EXCEPT ![q] = "none"]
    /\ UNCHANGED <<file, log, last, rehashed, registered, initial, uiVars>>

\* line 64: the migrated table is written back
RaceWriteBack(q) ==
    /\ pc[q] = "writeback"
    /\ file' = FileOf(to_csv(snap[q]))
    /\ pc' = [pc EXCEPT ![q] = "loaded"]
    /\ UNCHANGED <<snap, arg, ret, ncalls, log, last, rehashed, registered,
                   initial, uiVars>>

\* the local variable `users` of register_user (lines 75-82)
users_m_reread(q) == read_csv(file.rows)

users(q) == snap[q]

\* lines 76-85: the check, and the append and save if it passes
RaceSave(q) ==
    /\ pc[q] = "loaded"
    /\ IF UsernameTaken(users(q), arg[q].u)
       THEN /\ ret' = [ret EXCEPT ![q] = "False"]
            /\ file' = file
       ELSE /\ ret' = [ret EXCEPT ![q] = "True"]
            /\ \E salt \in Salts :
                 file' = save_users(Append(users(q),
                                           NewUser(arg[q].u, arg[q].p, salt)))
    /\ pc' = [pc EXCEPT ![q] = "idle"]
    /\ log' = Append(log, [proc |-> q, u |-> arg[q].u, ret |-> ret'[q],
                           before |-> FileUsernames(file),
                           after |-> FileUsernames(file')])
    /\ UNCHANGED <<snap, arg, ncalls, last, rehashed, registered, initial, uiVars>>

NextRace == \E q \in Procs : RaceLoad(q) \/ RaceWriteBack(q) \/ RaceSave(q)

SpecRace == Init /\ [][NextRace]_vars

\* ------------------------------------------------------------------------
\* Properties of the account store (specification Spec)
\* ------------------------------------------------------------------------
HashFormat(text) == StartsWith(text, HashMarker)

LegacyRowsOf(f) == {i \in 1..Len(f.rows) : ~HashFormat(f.rows[i].password)}

\* the passwords a stored value stands for: the one a hash was computed
\* from, or the legacy plaintext itself
HashSource(text) ==
    IF WellFormedHash(text) THEN {SubSeq(text, 5, Len(text))}
    ELSE IF ~HashFormat(text) THEN {text}
    ELSE {}

\* C1: starting from an empty or absent table, no two records of the
\* persisted table have the same username.
C1_UniqueUsernames == initial.rows = <<>> => Distinct(file.rows)

\* C2: register_user(u, p) for a username u that is not in the table returns
\* success, and every later login_user(u, p) returns true.
C2_RegisterThenLogin ==
    /\ (last.op = "register" /\ last.u \notin FileUsernames(last.before))
          => last.ret = "True"
    /\ (last.op = "login" /\ <<last.u, last.p>> \in registered)
          => last.ret = "True"

\* C3: login_user(u, p) returns true or false, and true exactly when the
\* table has a record with username u and p is the password the first such
\* record's hash was produced from.
C3_LoginIff ==
    last.op = "login" =>
        LET rows == last.before.rows
            m == {i \in 1..Len(rows) : rows[i].username = last.u}
        IN /\ last.ret \in {"True", "False"}
           /\ last.ret = "True" <=>
                (m # {} /\ last.p \in HashSource(rows[First(m)].password))

\* C4: register_user(u, p2) for a username u that is already in the table
\* returns failure and leaves the persisted table as it was.  Stated for
\* tables built by register_user alone (no legacy row, so that load_users
\* has nothing to write back).
C4_RegisterExisting ==
    (/\ last.op = "register"
     /\ initial.rows = <<>>
     /\ last.u \in FileUsernames(last.before))
        => (last.ret = "False" /\ file = last.before)

C7_LegacyLogin ==
    last.op = "login" =>
        \A i \in 1..Len(initial.rows) :
            (/\ initial.rows[i].username = last.u
             /\ ~WellFormedHash(initial.rows[i].password))
                => last.ret = (IF last.p = initial.rows[i].password
                               THEN "True" ELSE "False")

\* C8: verification never raises: login_user ends with true or false.
C8_LoginNeverRaises == last.op = "login" => last.ret \in {"True", "False"}

\* ------------------------------------------------------------------------
\* Properties of the session (specification SpecUI)
\* ------------------------------------------------------------------------
\* C10: the session is authenticated exactly when the latest Login or
\* Logout click was a Login whose login_user returned true, and then holds
\* that username; it holds the empty username when not authenticated; a
\* failed login and a Create Account click leave it unchanged; Logout
\* resets it; load_df and save_df are called only while authenticated and
\* only with the session's username.
C10_Session ==
    /\ [](session.authenticated <=> (hist.ev = "login" /\ hist.ret = "True"))
    /\ [](session.authenticated => session.username = hist.u)
    /\ [](~session.authenticated => session.username = <<>>)
    /\ [](\A c \in dfCalls :
             session.authenticated /\ c.user = session.username)
    /\ [][((last'.op = "ui_login" /\ last'.ret # "True")
             \/ last'.op = "ui_create") => session' = session]_vars
    /\ [][last'.op = "ui_logout" => session' = LoggedOut]_vars

registered_names == {x[1] : x \in registered}

C10_Witness ==
    /\ session.authenticated
    /\ hist = [ev |-> "login", u |-> session.username, ret |-> "True"]
    /\ [fn |-> "save_df", user |-> session.username, key |-> "yield"] \in dfCalls
    /\ session.username \in registered_names

\* ------------------------------------------------------------------------
\* Properties of concurrent registration (specification SpecRace)
\* ------------------------------------------------------------------------
\* C9: register_user decides and writes from the table it loaded, whatever
\* was written to the file since: it returns success exactly when the
\* username is not in its own snapshot, and the table it saves is that
\* snapshot plus the new record.  (The witness: two overlapping calls for one
\* username both succeed, and a record saved by one call is overwritten by
\* an overlapping call for another username.)
C9_RegisterNotAtomic ==
    [][\A q \in Procs :
         (pc[q] = "loaded" /\ pc'[q] = "idle") =>
            /\ ret'[q] = (IF UsernameTaken(snap[q], arg[q].u)
                          THEN "False" ELSE "True")
            /\ ret'[q] = "True" =>
                 /\ Len(file'.rows) = Len(snap[q]) + 1
                 /\ SubSeq(file'.rows, 1, Len(snap[q])) = to_csv(snap[q])
                 /\ file'.rows[Len(file'.rows)].username = arg[q].u
            /\ ret'[q] = "False" => file' = file]_vars

C9_Witness ==
    /\ \E i, j \in 1..Len(log) :
         /\ i < j
         /\ log[i].proc # log[j].proc
         /\ log[i].u = log[j].u
         /\ log[i].ret = "True" /\ log[j].ret = "True"
         /\ log[j].u \in log[j].before
    /\ \E i, j \in 1..Len(log) :
         /\ i < j
         /\ log[i].proc # log[j].proc
         /\ log[i].u # log[j].u
         /\ log[i].ret = "True" /\ log[j].ret = "True"
         /\ log[i].u \in log[j].before
         /\ log[i].u \notin log[j].after

====
